---- MODULE Spec2Model ----
(***************************************************************************)
(* Order lifecycle of the canteen backend: the cart (cartService.js), the  *)
(* cart-to-order conversion with its order-number counter, and the status  *)
(* state machine (orderService.js), over the relational store.             *)
(*                                                                         *)
(* Granularity: every `await prisma...` of a handler is one atomic step of *)
(* the request that runs it; the synchronous code between two awaits runs  *)
(* with the step before it.  Requests run in slots (Procs) and interleave  *)
(* at the awaits.  The store is SQLite (README.md): one writer at a time,  *)
(* readers see the last committed state; the callback of                   *)
(* prisma.$transaction holds the write lock from its first write to its    *)
(* commit or rollback.  Storage failures of a transaction (constraint      *)
(* violation, busy timeout, crash) are the nondeterministic step CfTxFail. *)
(*                                                                         *)
(* Prices are amounts in the smallest currency unit; the timestamps of an  *)
(* order are kept as set / not set, the changedAt of a history entry as    *)
(* milliseconds since the order was created; item notes are left out.      *)
(***************************************************************************)
EXTENDS Integers, Sequences, FiniteSets, TLC

\* ------------------------------------------------------------------ bounds
NumProcs == 2          \* request slots: requests in flight at the same time
MaxAdds == 2           \* addItem requests in a run
MaxCreates == 2        \* createFromCart requests in a run
MaxProductOps == 1     \* catalog writes by the admin in a run
MaxStatusReqs == 3     \* getById / cancel / updateStatus requests in a run
MaxCartOps == 2        \* updateItem / removeItem / clearCart requests in a run
MaxRequests == 2       \* requests in a cart run or a whole run, of any kind

Procs == 1..NumProcs
Users == {"u1", "u2"}
Admins == {"adm"}
PlacedOrders == <<"u1">>   \* owners of the orders placed before a status run
ProductIds == {"pA", "pB"}
Quantities == {0, 1}       \* quantity of a request body: the cart routes validate nothing
ProductEdit == [name |-> "Novo", price |-> 7]   \* the data of an admin's product edit

\* ------------------------------------------------------------- constants
\* ORDER_STATUS of utils/constants.js
PENDENTE == "PENDENTE"
EM_PREPARO == "EM_PREPARO"
PRONTO == "PRONTO"
ENTREGUE == "ENTREGUE"
CANCELADO == "CANCELADO"
ORDER_STATUS == {PENDENTE, EM_PREPARO, PRONTO, ENTREGUE, CANCELADO}

\* VALID_STATUS_TRANSITIONS of utils/constants.js
VALID_STATUS_TRANSITIONS ==
    [s \in ORDER_STATUS |->
        CASE s = PENDENTE   -> {EM_PREPARO, CANCELADO}
          [] s = EM_PREPARO -> {PRONTO, CANCELADO}
          [] s = PRONTO     -> {ENTREGUE, CANCELADO}
          [] s = ENTREGUE   -> {}
          [] s = CANCELADO  -> {}]

NoRow == -1            \* the order_counter row does not exist
NoOrder == 0           \* an order id that names no order

\* ----------------------------------------------------------------- state
VARIABLES
    counter,      \* value of the row order_counter, or NoRow
    orders,       \* Order rows with their items and status history, by id 1..Len
    cartExists,   \* user -> whether the user's Cart row exists
    cartItems,    \* user -> CartItem rows of the user's cart, oldest first
    products,     \* product id -> [name, price, isAvailable]
    nextItemId,   \* ids given to CartItem rows so far
    tx,           \* the open $transaction: its owner and its uncommitted writes
    pc,           \* slot -> position of the request running in it
    req,          \* slot -> the request: operation and arguments
    loc,          \* slot -> local variables of the handler
    res,          \* slot -> outcome of the last request of the slot
    used          \* requests started so far, by kind

db == <<counter, orders, cartExists, cartItems, products, nextItemId>>
vars == <<counter, orders, cartExists, cartItems, products, nextItemId,
          tx, pc, req, loc, res, used>>

\* ------------------------------------------------------------- records
NoTx == [owner |-> 0, counter |-> NoRow, orders |-> <<>>,
         cartItems |-> [u \in Users |-> <<>>]]

NoReq == [op |-> "none", user |-> "", orderId |-> NoOrder, newStatus |-> "",
          productId |-> "", itemId |-> 0, quantity |-> 0]

NoCart == [id |-> "", items |-> <<>>]

NoLoc == [cart |-> NoCart, orderItems |-> <<>>, totalAmount |-> 0,
          orderNumber |-> 0, status |-> "", itemId |-> 0, itemQty |-> 0]

NoRes == [kind |-> "none", statusCode |-> 0, message |-> "", a |-> "", b |-> "",
          orderId |-> NoOrder, statusHistory |-> <<>>]

Ok(code, id) == [kind |-> "ok", statusCode |-> code, message |-> "", a |-> "",
                 b |-> "", orderId |-> id, statusHistory |-> <<>>]

Err(code, msg, x, y) == [kind |-> "error", statusCode |-> code, message |-> msg,
                         a |-> x, b |-> y, orderId |-> NoOrder, statusHistory |-> <<>>]

\* an error of the storage client: no statusCode, errorMiddleware answers 500
StorageError == Err(500, "storage", "", "")

\* errors of the storage client that errorMiddleware answers by their code:
\* P2025 (record to update or delete not found), P2002 (unique constraint)
RecordNotFound == Err(404, "Registro nao encontrado", "", "")
UniqueViolation == Err(409, "ja esta em uso", "", "")

\* the error the failed statement of a transaction throws out of $transaction
RolledBack == Err(500, "rolled back", "", "")

RECURSIVE SumSeq(_)
SumSeq(s) == IF s = <<>> THEN 0 ELSE Head(s) + SumSeq(Tail(s))

SeqMap(F(_), s) == [i \in 1..Len(s) |-> F(s[i])]

\* ------------------------------------------------- requests and slots
\* a request is served by the first slot that is free
Free(p) == pc[p] = "idle" /\ \A q \in Procs : q < p => pc[q] # "idle"
LockFree == tx.owner = 0        \* no $transaction holds the write lock

Begin(p, first, r, kind) ==
    /\ Free(p)
    /\ pc' = [pc EXCEPT ![p] = first]
    /\ req' = [req EXCEPT ![p] = r]
    /\ loc' = [loc EXCEPT ![p] = NoLoc]
    /\ res' = [res EXCEPT ![p] = NoRes]
    /\ used' = [used EXCEPT ![kind] = @ + 1]

\* the handler returned or threw: the slot keeps the outcome only
Finish(p, result) ==
    /\ pc' = [pc EXCEPT ![p] = "idle"]
    /\ res' = [res EXCEPT ![p] = result]
    /\ req' = [req EXCEPT ![p] = NoReq]
    /\ loc' = [loc EXCEPT ![p] = NoLoc]
    /\ UNCHANGED used

Goto(p, next) ==
    /\ pc' = [pc EXCEPT ![p] = next]
    /\ UNCHANGED <<req, res, used>>

\* a middleware of the route answered the request: no handler runs
Reject(p, response, kind) ==
    /\ Free(p)
    /\ res' = [res EXCEPT ![p] = response]
    /\ used' = [used EXCEPT ![kind] = @ + 1]
    /\ UNCHANGED <<db, tx, pc, req, loc>>

\* ------------------------------------------------- errorMiddleware
\* values of process.env.NODE_ENV
NodeEnvs == {"production", "development", "test"}

Answer(statusCode, message, a, b, stack) ==
    [statusCode |-> statusCode, message |-> message, a |-> a, b |-> b,
     stack |-> stack]

\* errorMiddleware(err, req, res, next): the body of the answer to a thrown error.
\* The errors of the storage client with code P2025 / P2002 have a branch of their
\* own; all others take the generic branch, where a and b are the names that the
\* message of the error cites.
ErrorMiddleware(err, nodeEnv) ==
    IF err \in {RecordNotFound, UniqueViolation}
    THEN Answer(err.statusCode, err.message, "", "", FALSE)
    ELSE IF nodeEnv = "production"
    THEN Answer(err.statusCode, "Erro interno do servidor", "", "", FALSE)
    ELSE Answer(err.statusCode, err.message, err.a, err.b, TRUE)

\* role of the user of a request (prisma/seed.js)
Role(u) == IF u \in Admins THEN "ADMIN" ELSE "CLIENTE"

\* ------------------------------------------------------ product catalog
\* ProductService.updateAvailability(id, isAvailable)
UpdateAvailability(id, isAvailable) ==
    /\ LockFree
    /\ used.product < MaxProductOps
    /\ products[id].isAvailable # isAvailable
    /\ products' = [products EXCEPT ![id].isAvailable = isAvailable]
    /\ used' = [used EXCEPT !.product = @ + 1]
    /\ UNCHANGED <<counter, orders, cartExists, cartItems, nextItemId, tx, pc, req,
                   loc, res>>

\* ProductService.delete(id): soft delete
DeleteProduct(id) ==
    /\ LockFree
    /\ used.product < MaxProductOps
    /\ products' = [products EXCEPT ![id].isAvailable = FALSE]
    /\ used' = [used EXCEPT !.product = @ + 1]
    /\ UNCHANGED <<counter, orders, cartExists, cartItems, nextItemId, tx, pc, req,
                   loc, res>>

\* ProductService.update(id, data) with data = {name, price}
UpdateProduct(id, name, price) ==
    /\ LockFree
    /\ used.product < MaxProductOps
    /\ <<name, price>> # <<products[id].name, products[id].price>>
    /\ products' = [products EXCEPT ![id].name = name, ![id].price = price]
    /\ used' = [used EXCEPT !.product = @ + 1]
    /\ UNCHANGED <<counter, orders, cartExists, cartItems, nextItemId, tx, pc, req,
                   loc, res>>

\* ------------------------------------------------------------ the cart
NoItem == [id |-> 0, productId |-> "", quantity |-> 0]

\* prisma.cartItem.findUnique({ where: { cartId_productId } })
FindCartItemMisses(items, productId) == NoItem

FindCartItem(items, productId) ==
    LET hit == SelectSeq(items, LAMBDA it : it.productId = productId)
    IN  IF hit = <<>> THEN NoItem ELSE Head(hit)

HasItemId(items, id) == \E i \in 1..Len(items) : items[i].id = id

\* CartService.addItem(userId, productId, quantity)
StartAddItem(p, u, productId, quantity) ==
    /\ used.add < MaxAdds
    /\ Begin(p, "ai_product",
             [NoReq EXCEPT !.op = "addItem", !.user = u, !.productId = productId,
                           !.quantity = quantity], "add")
    /\ UNCHANGED <<db, tx>>

\* product lookup and availability check
AiProduct(p) ==
    /\ pc[p] = "ai_product"
    /\ IF ~products[req[p].productId].isAvailable
       THEN Finish(p, Err(400, "Produto nao disponivel", "", ""))
       ELSE Goto(p, "ai_cart") /\ UNCHANGED loc
    /\ UNCHANGED <<db, tx>>

\* prisma.cart.findUnique({ where: { userId } })
AiCart(p) ==
    /\ pc[p] = "ai_cart"
    /\ Goto(p, IF cartExists[req[p].user] THEN "ai_item" ELSE "ai_cart_create")
    /\ UNCHANGED <<db, tx, loc>>

\* prisma.cart.create({ data: { userId } }); Cart.userId is unique
AiCartCreate(p) ==
    /\ pc[p] = "ai_cart_create"
    /\ LockFree
    /\ IF cartExists[req[p].user]
       THEN Finish(p, UniqueViolation) /\ UNCHANGED cartExists
       ELSE /\ Goto(p, "ai_item")
            /\ cartExists' = [cartExists EXCEPT ![req[p].user] = TRUE]
            /\ UNCHANGED loc
    /\ UNCHANGED <<counter, orders, cartItems, products, nextItemId, tx>>

\* lookup of the product in the cart
AiItem(p) ==
    /\ pc[p] = "ai_item"
    /\ LET it == FindCartItem(cartItems[req[p].user], req[p].productId)
       IN  loc' = [loc EXCEPT ![p].itemId = it.id, ![p].itemQty = it.quantity]
    /\ Goto(p, "ai_write")
    /\ UNCHANGED <<db, tx>>

\* cartItem.update (quantity: existingItem.quantity + quantity) or cartItem.create
AiWrite(p) ==
    /\ pc[p] = "ai_write"
    /\ LockFree
    /\ LET u == req[p].user
           items == cartItems[u]
       IN  IF loc[p].itemId # 0
           THEN IF HasItemId(items, loc[p].itemId)
                THEN /\ cartItems' = [cartItems EXCEPT ![u] =
                            [i \in 1..Len(items) |->
                                IF items[i].id = loc[p].itemId
                                THEN [items[i] EXCEPT !.quantity =
                                          loc[p].itemQty + req[p].quantity]
                                ELSE items[i]]]
                     /\ Finish(p, Ok(200, NoOrder))
                     /\ UNCHANGED nextItemId
                ELSE /\ Finish(p, RecordNotFound)
                     /\ UNCHANGED <<cartItems, nextItemId>>
           ELSE IF FindCartItem(items, req[p].productId) # NoItem
                THEN /\ Finish(p, UniqueViolation)   \* unique (cartId, productId)
                     /\ UNCHANGED <<cartItems, nextItemId>>
                ELSE /\ cartItems' = [cartItems EXCEPT ![u] =
                            Append(items, [id |-> nextItemId + 1,
                                           productId |-> req[p].productId,
                                           quantity |-> req[p].quantity])]
                     /\ nextItemId' = nextItemId + 1
                     /\ Finish(p, Ok(200, NoOrder))
    /\ UNCHANGED <<counter, orders, cartExists, products, tx>>


\* prisma.cartItem.findFirst({ where: { id: itemId, cartId: cart.id } })
FindItemOfAnyCart(u, itemId) ==
    IF \E v \in Users : HasItemId(cartItems[v], itemId)
    THEN [NoItem EXCEPT !.id = itemId]
    ELSE NoItem

FindItemOfCart(u, itemId) ==
    LET hit == SelectSeq(cartItems[u], LAMBDA it : it.id = itemId)
    IN  IF hit = <<>> THEN NoItem ELSE Head(hit)

ItemExists(id) == \E u \in Users : HasItemId(cartItems[u], id)

\* the carts after prisma.cartItem.delete({ where: { id } })
DeleteItem(id) ==
    [u \in Users |-> SelectSeq(cartItems[u], LAMBDA it : it.id # id)]

\* the carts after prisma.cartItem.update({ where: { id }, data: { quantity } })
SetQuantity(id, quantity) ==
    [u \in Users |->
        [i \in 1..Len(cartItems[u]) |->
            IF cartItems[u][i].id = id
            THEN [cartItems[u][i] EXCEPT !.quantity = quantity]
            ELSE cartItems[u][i]]]

\* the carts after prisma.cartItem.deleteMany({ where: { cartId } })
DeleteManyKeepsOldest(carts, cartId) ==
    [carts EXCEPT ![cartId] = IF @ = <<>> THEN <<>> ELSE <<Head(@)>>]

DeleteMany(carts, cartId) == [carts EXCEPT ![cartId] = <<>>]

CartNotFound == Err(404, "Carrinho nao encontrado", "", "")
ItemNotFound == Err(404, "Item nao encontrado no carrinho", "", "")

\* the cart lookup that opens updateItem, removeItem and clearCart
CartLookup(p, at, next) ==
    /\ pc[p] = at
    /\ IF ~cartExists[req[p].user]
       THEN Finish(p, CartNotFound)
       ELSE Goto(p, next) /\ UNCHANGED loc
    /\ UNCHANGED <<db, tx>>

\* the lookup of the item in the user's cart, of updateItem and removeItem
ItemLookup(p, at, next) ==
    /\ pc[p] = at
    /\ IF FindItemOfCart(req[p].user, req[p].itemId) = NoItem
       THEN Finish(p, ItemNotFound)
       ELSE Goto(p, next) /\ UNCHANGED loc
    /\ UNCHANGED <<db, tx>>

\* CartService.updateItem(userId, itemId, quantity)
StartUpdateItem(p, u, itemId, quantity) ==
    /\ used.cart < MaxCartOps
    /\ Begin(p, "ui_cart",
             [NoReq EXCEPT !.op = "updateItem", !.user = u, !.itemId = itemId,
                           !.quantity = quantity], "cart")
    /\ UNCHANGED <<db, tx>>

UiCart(p) == CartLookup(p, "ui_cart", "ui_item")

UiItem(p) == ItemLookup(p, "ui_item", "ui_write")

\* if (quantity <= 0) ... else ...
KeepsItem(quantity) == ~(quantity <= 0)

\* cartItem.delete or cartItem.update by id, then getCart
UiWrite(p) ==
    /\ pc[p] = "ui_write"
    /\ LockFree
    /\ IF ~ItemExists(req[p].itemId)
       THEN Finish(p, RecordNotFound) /\ UNCHANGED cartItems
       ELSE /\ cartItems' = IF KeepsItem(req[p].quantity)
                            THEN SetQuantity(req[p].itemId, req[p].quantity)
                            ELSE DeleteItem(req[p].itemId)
            /\ Finish(p, Ok(200, NoOrder))
    /\ UNCHANGED <<counter, orders, cartExists, products, nextItemId, tx>>

\* CartService.removeItem(userId, itemId)
StartRemoveItem(p, u, itemId) ==
    /\ used.cart < MaxCartOps
    /\ Begin(p, "ri_cart",
             [NoReq EXCEPT !.op = "removeItem", !.user = u, !.itemId = itemId], "cart")
    /\ UNCHANGED <<db, tx>>

RiCart(p) == CartLookup(p, "ri_cart", "ri_item")

RiItem(p) == ItemLookup(p, "ri_item", "ri_write")

\* prisma.cartItem.delete({ where: { id: itemId } }), then getCart
RiWrite(p) ==
    /\ pc[p] = "ri_write"
    /\ LockFree
    /\ IF ~ItemExists(req[p].itemId)
       THEN Finish(p, RecordNotFound) /\ UNCHANGED cartItems
       ELSE /\ cartItems' = DeleteItem(req[p].itemId)
            /\ Finish(p, Ok(200, NoOrder))
    /\ UNCHANGED <<counter, orders, cartExists, products, nextItemId, tx>>

\* CartService.clearCart(userId)
StartClearCart(p, u) ==
    /\ used.cart < MaxCartOps
    /\ Begin(p, "cc_cart", [NoReq EXCEPT !.op = "clearCart", !.user = u], "cart")
    /\ UNCHANGED <<db, tx>>

CcCart(p) == CartLookup(p, "cc_cart", "cc_write")

\* prisma.cartItem.deleteMany({ where: { cartId: cart.id } }), then getCart
CcWrite(p) ==
    /\ pc[p] = "cc_write"
    /\ LockFree
    /\ cartItems' = DeleteMany(cartItems, req[p].user)
    /\ Finish(p, Ok(200, NoOrder))
    /\ UNCHANGED <<counter, orders, cartExists, products, nextItemId, tx>>


\* --------------------------------------------------- createFromCart
\* prisma.cart.findUnique({ where: { userId }, include: { items: { include: { product } } } })
ReadCart(u) ==
    IF ~cartExists[u] THEN NoCart
    ELSE [id |-> u,
          items |-> [i \in 1..Len(cartItems[u]) |->
                        [id |-> cartItems[u][i].id,
                         productId |-> cartItems[u][i].productId,
                         quantity |-> cartItems[u][i].quantity,
                         product |-> products[cartItems[u][i].productId]]]]

\* if (!cart || cart.items.length === 0)
CartIsEmptyNoLengthCheck(cart) == cart = NoCart

CartIsEmpty(cart) == cart = NoCart \/ Len(cart.items) = 0

\* for (const item of cart.items) if (!item.product.isAvailable) throw ...
UnavailableItemsFirstOnly(cart) ==
    IF ~cart.items[1].product.isAvailable THEN <<cart.items[1]>> ELSE <<>>

UnavailableItems(cart) == SelectSeq(cart.items, LAMBDA it : ~it.product.isAvailable)

\* the object built by cart.items.map for one cart item
OrderItemUnitTotal(item) ==
    [productId |-> item.productId, productName |-> item.product.name,
     quantity |-> item.quantity, unitPrice |-> item.product.price,
     totalPrice |-> item.product.price]

OrderItemOf(item) ==
    [productId |-> item.productId, productName |-> item.product.name,
     quantity |-> item.quantity, unitPrice |-> item.product.price,
     totalPrice |-> item.product.price * item.quantity]

OrderItemsOf(cart) == [i \in 1..Len(cart.items) |-> OrderItemOf(cart.items[i])]

\* let totalAmount = 0; ... totalAmount += itemTotal
TotalAmountOf(orderItems) ==
    SumSeq([i \in 1..Len(orderItems) |-> orderItems[i].totalPrice])

\* tx.counter.upsert: update { value: { increment: 1 } }, create { value: 1 }
UpsertCounterCreatesZero(c) == IF c = NoRow THEN 0 ELSE c + 1

UpsertCounterNoIncrement(c) == IF c = NoRow THEN 1 ELSE c

UpsertCounter(c) == IF c = NoRow THEN 1 ELSE c + 1

\* orderNumber: counter.value, the value the upsert returned
MintedNumberBeforeIncrement(value) == value - 1

MintedNumber(value) == value

\* a row of OrderStatusHistory; changedAt is the store's default, the clock at the
\* insert, in milliseconds counted from the creation of the order
HistoryEntry(status, changedBy, notes, changedAt) ==
    [status |-> status, changedBy |-> changedBy, notes |-> notes,
     changedAt |-> changedAt]

\* tx.order.create({ data: { orderNumber, userId, totalAmount, status, items, statusHistory } })
NewOrderWithoutHistory(orderNumber, userId, totalAmount, orderItems) ==
    [orderNumber |-> orderNumber, userId |-> userId, totalAmount |-> totalAmount,
     status |-> PENDENTE, items |-> orderItems,
     statusHistory |-> <<>>,
     preparedAt |-> FALSE, readyAt |-> FALSE, deliveredAt |-> FALSE,
     cancelledAt |-> FALSE]

NewOrder(orderNumber, userId, totalAmount, orderItems) ==
    [orderNumber |-> orderNumber, userId |-> userId, totalAmount |-> totalAmount,
     status |-> PENDENTE, items |-> orderItems,
     statusHistory |-> <<HistoryEntry(PENDENTE, "", "Pedido criado", 0)>>,
     preparedAt |-> FALSE, readyAt |-> FALSE, deliveredAt |-> FALSE,
     cancelledAt |-> FALSE]

\* what the store holds after a failed prisma.$transaction
RollbackKeepsWrites(committed, staged) == staged

Rollback(committed, staged) == committed

Committed == [counter |-> counter, orders |-> orders, cartItems |-> cartItems]
Staged == [counter |-> tx.counter, orders |-> tx.orders, cartItems |-> tx.cartItems]

Install(state) ==
    /\ counter' = state.counter
    /\ orders' = state.orders
    /\ cartItems' = state.cartItems
    /\ tx' = NoTx
    /\ UNCHANGED <<cartExists, products, nextItemId>>

StartCreateFromCart(p, u) ==
    /\ used.create < MaxCreates
    /\ Begin(p, "cf_read", [NoReq EXCEPT !.op = "createFromCart", !.user = u], "create")
    /\ UNCHANGED <<db, tx>>

\* the cart read, the two validations and the order items, up to the transaction
CfRead(p) ==
    /\ pc[p] = "cf_read"
    /\ LET cart == ReadCart(req[p].user)
           orderItems == OrderItemsOf(cart)
       IN  IF CartIsEmpty(cart)
           THEN Finish(p, Err(400, "Carrinho vazio", "", ""))
           ELSE IF UnavailableItems(cart) # <<>>
           THEN /\ Finish(p, Err(400, "Produto nao esta mais disponivel",
                                 Head(UnavailableItems(cart)).product.name, ""))
           ELSE /\ Goto(p, "cf_tx_counter")
                /\ loc' = [loc EXCEPT ![p].cart = cart, ![p].orderItems = orderItems,
                                      ![p].totalAmount = TotalAmountOf(orderItems)]
    /\ UNCHANGED <<db, tx>>

\* first statement of the transaction: takes the write lock, upserts the counter
CfTxCounter(p) ==
    /\ pc[p] = "cf_tx_counter"
    /\ LockFree
    /\ tx' = [owner |-> p, counter |-> UpsertCounter(counter), orders |-> orders,
              cartItems |-> cartItems]
    /\ loc' = [loc EXCEPT ![p].orderNumber = MintedNumber(UpsertCounter(counter))]
    /\ Goto(p, "cf_tx_order")
    /\ UNCHANGED db

\* tx.order.create with its items and its first history entry
CfTxOrder(p) ==
    /\ pc[p] = "cf_tx_order"
    /\ tx.owner = p
    /\ tx' = [tx EXCEPT !.orders = Append(@, NewOrder(loc[p].orderNumber, req[p].user,
                                                    loc[p].totalAmount,
                                                    loc[p].orderItems))]
    /\ Goto(p, "cf_tx_purge")
    /\ UNCHANGED <<db, loc>>

\* tx.cartItem.deleteMany({ where: { cartId: cart.id } })
CfTxPurge(p) ==
    /\ pc[p] = "cf_tx_purge"
    /\ tx.owner = p
    /\ tx' = [tx EXCEPT !.cartItems = DeleteMany(@, loc[p].cart.id)]
    /\ Goto(p, "cf_tx_commit")
    /\ UNCHANGED <<db, loc>>

\* the callback returned: COMMIT
CfTxCommit(p) ==
    /\ pc[p] = "cf_tx_commit"
    /\ tx.owner = p
    /\ Install(Staged)
    /\ Finish(p, Ok(201, Len(tx.orders)))

\* a statement of the transaction, or its commit, failed: ROLLBACK
CfTxFail(p) ==
    /\ pc[p] \in {"cf_tx_order", "cf_tx_purge", "cf_tx_commit"}
    /\ tx.owner = p
    /\ Install(Rollback(Committed, Staged))
    /\ Finish(p, RolledBack)

\* the transaction could not start (the store stayed locked)
CfTxBusy(p) ==
    /\ pc[p] = "cf_tx_counter"
    /\ ~LockFree
    /\ Finish(p, StorageError)
    /\ UNCHANGED <<db, tx>>

\* ------------------------------------------------ cart-to-order runs
Products0 ==
    [id \in ProductIds |->
        IF id = "pA" THEN [name |-> "A", price |-> 5, isAvailable |-> TRUE]
                     ELSE [name |-> "B", price |-> 3, isAvailable |-> TRUE]]

InitProcs ==
    /\ tx = NoTx
    /\ pc = [p \in Procs |-> "idle"]
    /\ req = [p \in Procs |-> NoReq]
    /\ loc = [p \in Procs |-> NoLoc]
    /\ res = [p \in Procs |-> NoRes]
    /\ used = [add |-> 0, create |-> 0, product |-> 0, status |-> 0, cart |-> 0]

\* carts as addItem leaves them: no Cart row, one item, two items
CartChoices ==
    { <<FALSE, <<>>>>,
      <<TRUE, <<[productId |-> "pA", quantity |-> 2]>>>>,
      <<TRUE, <<[productId |-> "pA", quantity |-> 2],
                [productId |-> "pB", quantity |-> 1]>>>> }

FirstItemId(u) == IF u = "u1" THEN 0 ELSE 2

\* the carts the customers have filled, with the ids their items were given
FilledCarts ==
    \E choice \in [Users -> CartChoices] :
        /\ cartExists = [u \in Users |-> choice[u][1]]
        /\ cartItems = [u \in Users |->
              [i \in 1..Len(choice[u][2]) |->
                  [id |-> FirstItemId(u) + i,
                   productId |-> choice[u][2][i].productId,
                   quantity |-> choice[u][2][i].quantity]]]

\* the store after prisma/seed.js (counter 0), or before it (no counter row),
\* with the carts the customers have filled
InitCreate ==
    /\ counter \in {NoRow, 0}
    /\ orders = <<>>
    /\ FilledCarts
    /\ products = Products0
    /\ nextItemId = 4
    /\ InitProcs

AddItemStep(p) ==
    \/ \E u \in Users, id \in ProductIds, q \in Quantities : StartAddItem(p, u, id, q)
    \/ AiProduct(p)
    \/ AiCart(p)
    \/ AiCartCreate(p)
    \/ AiItem(p)
    \/ AiWrite(p)

CreateFromCartStep(p) ==
    \/ \E u \in Users : StartCreateFromCart(p, u)
    \/ CfRead(p)
    \/ CfTxCounter(p)
    \/ CfTxOrder(p)
    \/ CfTxPurge(p)
    \/ CfTxCommit(p)
    \/ CfTxFail(p)
    \/ CfTxBusy(p)

CatalogStep ==
    \/ \E id \in ProductIds, b \in BOOLEAN : UpdateAvailability(id, b)
    \/ \E id \in ProductIds : DeleteProduct(id)
    \/ \E id \in ProductIds : UpdateProduct(id, ProductEdit.name, ProductEdit.price)

NextCreate ==
    \/ \E p \in Procs : CreateFromCartStep(p)
    \/ CatalogStep

SpecCreate == InitCreate /\ [][NextCreate]_vars


\* ------------------------------------------------------------ cart runs
\* the :itemId of a request names an item of some cart
ItemIds == {id \in 1..nextItemId : ItemExists(id)}

UpdateItemStep(p) ==
    \/ \E u \in Users, id \in ItemIds, q \in Quantities : StartUpdateItem(p, u, id, q)
    \/ UiCart(p)
    \/ UiItem(p)
    \/ UiWrite(p)

RemoveItemStep(p) ==
    \/ \E u \in Users, id \in ItemIds : StartRemoveItem(p, u, id)
    \/ RiCart(p)
    \/ RiItem(p)
    \/ RiWrite(p)

ClearCartStep(p) ==
    \/ \E u \in Users : StartClearCart(p, u)
    \/ CcCart(p)
    \/ CcWrite(p)

\* the store after prisma/seed.js and one addItem: the first customer holds a cart
\* with one item, the second has no cart yet
InitCart ==
    /\ counter = 0
    /\ orders = <<>>
    /\ cartExists = [u \in Users |-> u = "u1"]
    /\ cartItems = [u \in Users |->
            IF u = "u1" THEN <<[id |-> 1, productId |-> "pA", quantity |-> 2]>> ELSE <<>>]
    /\ products = Products0
    /\ nextItemId = 1
    /\ InitProcs

\* addItem requests only
NextAdd == \E p \in Procs : AddItemStep(p)

SpecAdd == InitCart /\ [][NextAdd]_vars

RequestsStarted == used.add + used.create + used.cart + used.product + used.status

\* no request is accepted once MaxRequests requests were started
Budget == IF RequestsStarted < MaxRequests THEN TRUE ELSE used' = used

\* the requests of the customers on the cart routes and on POST /orders
NextCart ==
    /\ Budget
    /\ \/ \E p \in Procs : AddItemStep(p)
       \/ \E p \in Procs : UpdateItemStep(p)
       \/ \E p \in Procs : RemoveItemStep(p)
       \/ \E p \in Procs : ClearCartStep(p)
       \/ \E p \in Procs : CreateFromCartStep(p)

SpecCart == InitCart /\ [][NextCart]_vars

\* ------------------------------------------------------------- cancel
\* prisma.order.findFirst({ where: { id, userId } })
FindOrderOfUser(id, userId) ==
    IF id \in 1..Len(orders) /\ orders[id].userId = userId THEN id ELSE NoOrder

\* prisma.order.findUnique({ where: { id } })
FindOrder(id) == IF id \in 1..Len(orders) THEN id ELSE NoOrder

\* if (order.status !== ORDER_STATUS.PENDENTE) throw ...
CanCancel(status) == status = PENDENTE

StartCancel(p, u, id) ==
    /\ used.status < MaxStatusReqs
    /\ Begin(p, "ca_find", [NoReq EXCEPT !.op = "cancel", !.user = u, !.orderId = id],
             "status")
    /\ UNCHANGED <<db, tx>>

\* the lookup of the user's order and the check of its status
CaFind(p) ==
    /\ pc[p] = "ca_find"
    /\ LET id == FindOrderOfUser(req[p].orderId, req[p].user)
       IN  IF id = NoOrder
           THEN Finish(p, Err(404, "Pedido nao encontrado", "", ""))
           ELSE IF ~CanCancel(orders[id].status)
           THEN Finish(p, Err(400, "Apenas pedidos pendentes podem ser cancelados",
                              "", ""))
           ELSE /\ Goto(p, "ca_write")
                /\ loc' = [loc EXCEPT ![p].status = orders[id].status]
    /\ UNCHANGED <<db, tx>>

\* the clock at an insert into the history of the order: the millisecond of the
\* order's latest entry, or a later one.  The id of an order reaches a caller with
\* the response of createFromCart, so every later entry is later than the first.
ClockReadings(order) ==
    LET last == order.statusHistory[Len(order.statusHistory)].changedAt
    IN  IF Len(order.statusHistory) = 1 THEN {last + 1} ELSE {last, last + 1}

\* the order after prisma.order.update with data { status: CANCELADO, cancelledAt,
\* statusHistory: { create } }
CancelUpdateWithoutTimestamp(order, changedAt) ==
    [order EXCEPT
        !.status = CANCELADO,
        !.statusHistory =
            Append(@, HistoryEntry(CANCELADO, "", "Cancelado pelo cliente", changedAt))]

CancelUpdate(order, changedAt) ==
    [order EXCEPT
        !.status = CANCELADO,
        !.cancelledAt = TRUE,
        !.statusHistory =
            Append(@, HistoryEntry(CANCELADO, "", "Cancelado pelo cliente", changedAt))]

\* prisma.order.update: status CANCELADO, cancelledAt, one history entry
CaWrite(p) ==
    /\ pc[p] = "ca_write"
    /\ LockFree
    /\ \E t \in ClockReadings(orders[req[p].orderId]) :
          orders' = [orders EXCEPT ![req[p].orderId] = CancelUpdate(@, t)]
    /\ Finish(p, Ok(200, req[p].orderId))
    /\ UNCHANGED <<counter, cartExists, cartItems, products, nextItemId, tx>>

\* ------------------------------------------------------- updateStatus
\* if (!validTransitions.includes(newStatus)) throw ...
TransitionAllowedCancelFromAny(current, newStatus) ==
    newStatus \in VALID_STATUS_TRANSITIONS[current] \/ newStatus = CANCELADO

TransitionAllowedSkipsStages(current, newStatus) ==
    newStatus \in VALID_STATUS_TRANSITIONS[current] \/ newStatus \in {PRONTO, ENTREGUE}

TransitionAllowed(current, newStatus) == newStatus \in VALID_STATUS_TRANSITIONS[current]

StartUpdateStatus(p, adminId, id, newStatus) ==
    /\ used.status < MaxStatusReqs
    /\ Begin(p, "us_find",
             [NoReq EXCEPT !.op = "updateStatus", !.user = adminId, !.orderId = id,
                           !.newStatus = newStatus], "status")
    /\ UNCHANGED <<db, tx>>

\* the lookup of the order and the check against the transition table
UsFindLogsRefusal(p) ==
    /\ pc[p] = "us_find"
    /\ LET id == FindOrder(req[p].orderId)
       IN  IF id = NoOrder
           THEN Finish(p, Err(404, "Pedido nao encontrado", "", "")) /\ UNCHANGED orders
           ELSE IF ~TransitionAllowed(orders[id].status, req[p].newStatus)
           THEN /\ Finish(p, Err(400, "Nao e possivel mudar", orders[id].status,
                                 req[p].newStatus))
                /\ orders' = [orders EXCEPT ![id].statusHistory =
                                  Append(@, HistoryEntry(orders[id].status, req[p].user,
                                                         "", 0))]
           ELSE /\ Goto(p, "us_write")
                /\ loc' = [loc EXCEPT ![p].status = orders[id].status]
                /\ UNCHANGED orders
    /\ UNCHANGED <<counter, cartExists, cartItems, products, nextItemId, tx>>

UsFind(p) ==
    /\ pc[p] = "us_find"
    /\ LET id == FindOrder(req[p].orderId)
       IN  IF id = NoOrder
           THEN Finish(p, Err(404, "Pedido nao encontrado", "", ""))
           ELSE IF ~TransitionAllowed(orders[id].status, req[p].newStatus)
           THEN Finish(p, Err(400, "Nao e possivel mudar", orders[id].status,
                              req[p].newStatus))
           ELSE /\ Goto(p, "us_write")
                /\ loc' = [loc EXCEPT ![p].status = orders[id].status]
    /\ UNCHANGED <<db, tx>>

\* the order after prisma.order.update with data updateData
StatusUpdateAsNewRow(order, s, adminId, changedAt) ==
    [NewOrder(order.orderNumber, order.userId, 0, <<>>) EXCEPT
        !.status = s,
        !.statusHistory = Append(order.statusHistory,
                                 HistoryEntry(s, adminId, "", changedAt))]

StatusUpdateWithoutEntry(order, s, adminId, changedAt) ==
    [order EXCEPT
        !.status = s,
        !.preparedAt = IF s = EM_PREPARO THEN TRUE ELSE @,
        !.readyAt = IF s = PRONTO THEN TRUE ELSE @,
        !.deliveredAt = IF s = ENTREGUE THEN TRUE ELSE @,
        !.cancelledAt = IF s = CANCELADO THEN TRUE ELSE @]

StatusUpdate(order, s, adminId, changedAt) ==
    [order EXCEPT
        !.status = s,
        !.statusHistory = Append(@, HistoryEntry(s, adminId, "", changedAt)),
        !.preparedAt = IF s = EM_PREPARO THEN TRUE ELSE @,
        !.readyAt = IF s = PRONTO THEN TRUE ELSE @,
        !.deliveredAt = IF s = ENTREGUE THEN TRUE ELSE @,
        !.cancelledAt = IF s = CANCELADO THEN TRUE ELSE @]

\* prisma.order.update: status, the timestamp of the status, one history entry
UsWrite(p) ==
    /\ pc[p] = "us_write"
    /\ LockFree
    /\ \E t \in ClockReadings(orders[req[p].orderId]) :
          orders' = [orders EXCEPT ![req[p].orderId] =
                        StatusUpdate(@, req[p].newStatus, req[p].user, t)]
    /\ Finish(p, Ok(200, req[p].orderId))
    /\ UNCHANGED <<counter, cartExists, cartItems, products, nextItemId, tx>>

\* ------------------------------------------------- adminMiddleware
Forbidden == Err(403, "Acesso restrito a administradores", "", "")

\* if (req.user.role !== USER_ROLES.ADMIN) return res.status(403)...; next()
AdminMiddlewareLetsAll(role) == NoRes

AdminMiddleware(role) == IF role # "ADMIN" THEN Forbidden ELSE NoRes

\* PATCH /admin/:id/status: adminMiddleware, then OrderController.updateStatus
PatchStatus(p, u, id, newStatus) ==
    IF AdminMiddleware(Role(u)) = NoRes
    THEN StartUpdateStatus(p, u, id, newStatus)
    ELSE /\ used.status < MaxStatusReqs
         /\ Reject(p, AdminMiddleware(Role(u)), "status")

\* ------------------------------------------------------------ getById
\* the orders over which findFirst searches: where { id } for an admin,
\* where { id, userId } for everybody else
FindForRequesterAnyUser(id, userId, isAdmin) == FindOrder(id)

FindForRequester(id, userId, isAdmin) ==
    IF isAdmin THEN FindOrder(id) ELSE FindOrderOfUser(id, userId)

RECURSIVE DescOrders(_, _)
\* the orders in which the entries of positions S can be returned by
\* orderBy: { changedAt: 'desc' }: rows of equal changedAt come in any order
DescOrders(history, S) ==
    IF S = {} THEN {<<>>}
    ELSE LET latest == {i \in S : \A j \in S : history[j].changedAt <= history[i].changedAt}
         IN  UNION {{<<history[i]>> \o rest : rest \in DescOrders(history, S \ {i})} :
                    i \in latest}

OrderByChangedAtDesc(history) == DescOrders(history, 1..Len(history))

\* OrderController.getOrderById -> OrderService.getById(id, userId, isAdmin)
StartGetById(p, u, id) ==
    /\ used.status < MaxStatusReqs
    /\ Begin(p, "gb_find", [NoReq EXCEPT !.op = "getById", !.user = u, !.orderId = id],
             "status")
    /\ UNCHANGED <<db, tx>>

\* prisma.order.findFirst with items, user and statusHistory; 404 when it finds none
GbFind(p) ==
    /\ pc[p] = "gb_find"
    /\ LET id == FindForRequester(req[p].orderId, req[p].user, Role(req[p].user) = "ADMIN")
       IN  IF id = NoOrder
           THEN Finish(p, Err(404, "Pedido nao encontrado", "", ""))
           ELSE \E h \in OrderByChangedAtDesc(orders[id].statusHistory) :
                    Finish(p, [Ok(200, id) EXCEPT !.statusHistory = h])
    /\ UNCHANGED <<db, tx>>

\* ------------------------------------------------------- status runs
\* the cart a placed order was made from
OrderedCart ==
    [id |-> "u1",
     items |-> <<[id |-> 1, productId |-> "pA", quantity |-> 2, product |-> Products0["pA"]],
                 [id |-> 2, productId |-> "pB", quantity |-> 1, product |-> Products0["pB"]]>>]

\* the store after the successful createFromCart calls of PlacedOrders
InitStatus ==
    /\ counter = Len(PlacedOrders)
    /\ orders = [i \in 1..Len(PlacedOrders) |->
                    NewOrder(i, PlacedOrders[i], TotalAmountOf(OrderItemsOf(OrderedCart)),
                             OrderItemsOf(OrderedCart))]
    /\ cartExists = [u \in Users |-> \E i \in 1..Len(PlacedOrders) : PlacedOrders[i] = u]
    /\ cartItems = [u \in Users |-> <<>>]
    /\ products = Products0
    /\ nextItemId = 2 * Len(PlacedOrders)
    /\ InitProcs

OrderIds == 1..(Len(PlacedOrders) + 1)      \* the last one names no order

CancelStep(p) ==
    \/ \E u \in Users, id \in OrderIds : StartCancel(p, u, id)
    \/ CaFind(p)
    \/ CaWrite(p)

GetByIdStep(p) ==
    \/ \E u \in Users \cup Admins, id \in OrderIds : StartGetById(p, u, id)
    \/ GbFind(p)

UpdateStatusStep(p) ==
    \/ \E u \in Users \cup Admins, id \in OrderIds, s \in ORDER_STATUS :
          PatchStatus(p, u, id, s)
    \/ UsFind(p)
    \/ UsWrite(p)

NextStatus ==
    \/ \E p \in Procs : GetByIdStep(p)
    \/ \E p \in Procs : CancelStep(p)
    \/ \E p \in Procs : UpdateStatusStep(p)

SpecStatus == InitStatus /\ [][NextStatus]_vars


\* --------------------------------------------------------- whole runs
\* the store after the first customer ordered (OrderedCart) and put one more item
\* in the cart; the second customer holds a cart without items
InitLife ==
    /\ counter = 1
    /\ orders = <<NewOrder(1, "u1", TotalAmountOf(OrderItemsOf(OrderedCart)),
                           OrderItemsOf(OrderedCart))>>
    /\ cartExists = [u \in Users |-> TRUE]
    /\ cartItems = [u \in Users |->
            IF u = "u1" THEN <<[id |-> 3, productId |-> "pA", quantity |-> 2]>> ELSE <<>>]
    /\ products = Products0
    /\ nextItemId = 3
    /\ InitProcs

\* the operations of the customers and of the admin that run while orders exist;
\* the carts are as addItem left them
NextLife ==
    /\ Budget
    /\ \/ \E p \in Procs : UpdateItemStep(p)
       \/ \E p \in Procs : RemoveItemStep(p)
       \/ \E p \in Procs : ClearCartStep(p)
       \/ \E p \in Procs : CreateFromCartStep(p)
       \/ CatalogStep
       \/ \E p \in Procs : CancelStep(p)
       \/ \E p \in Procs : UpdateStatusStep(p)

SpecLife == InitLife /\ [][NextLife]_vars


\* ===================================================================
\* Properties
\* ===================================================================
CounterValue == IF counter = NoRow THEN 0 ELSE counter
OrderNumbers == {orders[i].orderNumber : i \in 1..Len(orders)}
InTransaction(p) == pc[p] \in {"cf_tx_order", "cf_tx_purge", "cf_tx_commit"}
Failed(p) == pc'[p] = "idle" /\ pc[p] # "idle" /\ res'[p].kind = "error"
StoreUnchanged == UNCHANGED <<counter, orders, cartExists, cartItems, products>>

\* C1: no two orders of the store, committed or written by the open transaction,
\* carry the same orderNumber, whatever the interleaving of the createFromCart calls.
C1_UniqueOrderNumbers ==
    /\ \A i, j \in 1..Len(orders) :
          i # j => orders[i].orderNumber # orders[j].orderNumber
    /\ \A i, j \in 1..Len(tx.orders) :
          i # j => tx.orders[i].orderNumber # tx.orders[j].orderNumber

\* two orders of two customers are in the store
C1_Witness ==
    /\ Len(orders) = 2
    /\ orders[1].userId # orders[2].userId

\* C2: the order numbers in the store are exactly c0+1 .. c, with c0 = 0 the value of
\* the counter before the first createFromCart (seeded 0, or no row) and c its
\* current value; a step advances the counter by one exactly when it adds an order,
\* and a createFromCart that ends in an error advances it by zero.
C2_ContiguousRun ==
    /\ [](OrderNumbers = 1..CounterValue)
    /\ [][/\ CounterValue' - CounterValue = Len(orders') - Len(orders)
          /\ CounterValue' - CounterValue \in {0, 1}
          /\ \A p \in Procs :
                (req[p].op = "createFromCart" /\ Failed(p)) =>
                    CounterValue' = CounterValue]_vars

\* the counter stands at 2 and the orders 1 and 2 exist
C2_Witness ==
    /\ counter = 2
    /\ OrderNumbers = {1, 2}

\* C3: a createFromCart whose transaction fails after the counter increment leaves the
\* counter, the orders with their items and history, and the cart items as they
\* were; the counter never stands above the number of orders, every order has items
\* and history, and a cart loses all its items only in the step that adds its order.
C3_AllOrNothing ==
    /\ [](/\ CounterValue = Len(orders)
          /\ \A i \in 1..Len(orders) :
                Len(orders[i].items) >= 1 /\ Len(orders[i].statusHistory) >= 1)
    /\ [][/\ \A p \in Procs : (InTransaction(p) /\ Failed(p)) => StoreUnchanged
          /\ \A u \in Users :
                (cartItems[u] # <<>> /\ cartItems'[u] = <<>>) =>
                    /\ Len(orders') = Len(orders) + 1
                    /\ orders'[Len(orders')].userId = u]_vars

\* a transaction was rolled back while the cart it read is still filled
C3_Witness ==
    \E p \in Procs :
        /\ res[p] = RolledBack
        /\ \E u \in Users : cartItems[u] # <<>> /\ ~\E i \in 1..Len(orders) : orders[i].userId = u


\* the transition table as the specification states it (section 4.3)
TableEdges ==
    { <<PENDENTE, EM_PREPARO>>, <<PENDENTE, CANCELADO>>,
      <<EM_PREPARO, PRONTO>>, <<EM_PREPARO, CANCELADO>>,
      <<PRONTO, ENTREGUE>>, <<PRONTO, CANCELADO>> }

OnlyPendingError == Err(400, "Apenas pedidos pendentes podem ser cancelados", "", "")
OwnOrder(p) == req[p].orderId \in 1..Len(orders) /\ orders[req[p].orderId].userId = req[p].user

\* C4: the order is PENDENTE at the moment a cancel writes CANCELADO, also when admin
\* updateStatus calls overlap the cancel; a cancel that finds its order in another
\* status ends with the only-pending error and changes nothing.
C4_CancelOnlyPending ==
    [][\A p \in Procs :
          /\ (pc[p] = "ca_write" /\ pc'[p] = "idle") =>
                orders[req[p].orderId].status = PENDENTE
          /\ (pc[p] = "ca_find" /\ pc'[p] # "ca_find" /\ OwnOrder(p)
                /\ orders[req[p].orderId].status # PENDENTE) =>
                (pc'[p] = "idle" /\ res'[p] = OnlyPendingError /\ StoreUnchanged)]_vars

C6_TerminalAbsorbing ==
    [][\A i \in 1..Len(orders) :
          orders[i].status \in {ENTREGUE, CANCELADO} =>
              orders'[i].status = orders[i].status]_vars

\* C7: every change of the stored status of an order, and every pair of consecutive
\* entries of its status history, is an edge of the transition table.
C7_ConsecutiveEdges ==
    /\ [](\A i \in 1..Len(orders) :
             \A k \in 1..(Len(orders[i].statusHistory) - 1) :
                <<orders[i].statusHistory[k].status,
                  orders[i].statusHistory[k + 1].status>> \in TableEdges)
    /\ [][\A i \in 1..Len(orders) :
             orders'[i].status # orders[i].status =>
                <<orders[i].status, orders'[i].status>> \in TableEdges]_vars

CartEmptyInStore(u) == ~cartExists[u] \/ cartItems[u] = <<>>
UnavailableNames(u) ==
    {products[cartItems[u][i].productId].name :
        i \in {k \in 1..Len(cartItems[u]) : ~products[cartItems[u][k].productId].isAvailable}}

\* C8: a createFromCart of a user without a Cart row, or with a cart of zero items,
\* ends at its cart read with the empty-cart error (statusCode 400): no order, no
\* order item, no history entry is created and the counter does not move.
C8_EmptyCartRejected ==
    [][\A p \in Procs :
          (pc[p] = "cf_read" /\ pc'[p] # "cf_read" /\ CartEmptyInStore(req[p].user)) =>
              /\ pc'[p] = "idle"
              /\ res'[p] = Err(400, "Carrinho vazio", "", "")
              /\ StoreUnchanged
              /\ tx' = tx]_vars

\* an order emptied a cart and a later createFromCart on an existing cart was refused
C8_Witness ==
    /\ \E p \in Procs : res[p] = Err(400, "Carrinho vazio", "", "")
    /\ \A u \in Users : cartExists[u]
    /\ Len(orders) >= 1

\* C9: a createFromCart on a cart holding an item of an unavailable product ends at its
\* cart read with the product-unavailable error (400) naming an unavailable product of
\* the cart; no order is created, every cart item and the counter stay as they were.
C9_UnavailableRejected ==
    [][\A p \in Procs :
          (pc[p] = "cf_read" /\ pc'[p] # "cf_read" /\ ~CartEmptyInStore(req[p].user)
              /\ UnavailableNames(req[p].user) # {}) =>
              /\ pc'[p] = "idle"
              /\ res'[p].kind = "error"
              /\ res'[p].statusCode = 400
              /\ res'[p].message = "Produto nao esta mais disponivel"
              /\ res'[p].a \in UnavailableNames(req[p].user)
              /\ StoreUnchanged
              /\ tx' = tx]_vars

\* the second product of a two-item cart was unavailable: the error names it and the
\* cart keeps both items
C9_Witness ==
    /\ \E p \in Procs : res[p] = Err(400, "Produto nao esta mais disponivel", "B", "")
    /\ \E u \in Users : Len(cartItems[u]) = 2
    /\ orders = <<>>

ItemSubtotals(order) == [k \in 1..Len(order.items) |->
                            order.items[k].unitPrice * order.items[k].quantity]

\* C10: every order's totalAmount is the sum of unitPrice * quantity over its items and
\* every item's totalPrice is its unitPrice * quantity; the cart read of createFromCart
\* returns the store's quantities, prices and names, and the order it commits carries
\* exactly the values of that read.
C10_TotalsAndSnapshot ==
    /\ [](\A i \in 1..Len(orders) :
             /\ orders[i].totalAmount = SumSeq(ItemSubtotals(orders[i]))
             /\ \A k \in 1..Len(orders[i].items) :
                   orders[i].items[k].totalPrice =
                       orders[i].items[k].unitPrice * orders[i].items[k].quantity)
    /\ [][\A p \in Procs :
             /\ (pc[p] = "cf_read" /\ pc'[p] = "cf_tx_counter") =>
                   LET rows == cartItems[req[p].user]
                       read == loc'[p].cart.items
                   IN  /\ Len(read) = Len(rows)
                       /\ \A k \in 1..Len(rows) :
                             /\ read[k].quantity = rows[k].quantity
                             /\ read[k].productId = rows[k].productId
                             /\ read[k].product.price = products[rows[k].productId].price
                             /\ read[k].product.name = products[rows[k].productId].name
             /\ (pc[p] = "cf_tx_commit" /\ pc'[p] = "idle"
                   /\ Len(orders') = Len(orders) + 1) =>
                   LET new == orders'[Len(orders')]
                       read == loc[p].cart.items
                   IN  /\ Len(new.items) = Len(read)
                       /\ \A k \in 1..Len(read) :
                             /\ new.items[k].quantity = read[k].quantity
                             /\ new.items[k].unitPrice = read[k].product.price
                             /\ new.items[k].productName = read[k].product.name]_vars

\* the order of two items (2 x 5 and 1 x 3) totals 13 and keeps the price and name it
\* read, although the product was edited since
C10_Witness ==
    \E i \in 1..Len(orders) :
        /\ Len(orders[i].items) = 2
        /\ orders[i].totalAmount = 13
        /\ orders[i].items[1].unitPrice = 5
        /\ orders[i].items[1].productName = "A"
        /\ products["pA"].price = ProductEdit.price
        /\ products["pA"].name = ProductEdit.name


\* C11: the step in which a createFromCart commits and returns its order leaves the
\* cart it read with zero items; the Cart row of the user exists before and after the
\* step, is the cart the call read, and no Cart row is created or removed by the call.
C11_CartPurgedNotDeleted ==
    [][\A p \in Procs :
          (pc[p] = "cf_tx_commit" /\ pc'[p] = "idle" /\ res'[p].kind = "ok") =>
              /\ loc[p].cart.id = req[p].user
              /\ cartItems'[req[p].user] = <<>>
              /\ cartExists[req[p].user]
              /\ cartExists' = cartExists]_vars

\* an order was made from the first customer's cart: the cart is there, without items,
\* while the other customer added an item of their own in the meantime
C11_Witness ==
    /\ \E p \in Procs : res[p] = Ok(201, 1)
    /\ orders[1].userId = "u1"
    /\ cartExists["u1"] /\ cartItems["u1"] = <<>>
    /\ cartItems["u2"] # <<>>


\* the fields of an order that are fixed at its creation
Immutable(order) ==
    [orderNumber |-> order.orderNumber, userId |-> order.userId,
     totalAmount |-> order.totalAmount, items |-> order.items]

IllegalTransition(p) ==
    Err(400, "Nao e possivel mudar", orders[req[p].orderId].status, req[p].newStatus)

\* C13: an updateStatus call that ends in an error ends at its lookup, with "not found"
\* for an unknown order and with the transition error for a pair outside the table,
\* and no step of the call has changed the store: every order keeps its status, its
\* timestamp fields and its history.
C13_RejectedUpdateHasNoEffect ==
    [][\A p \in Procs :
          /\ (pc[p] = "idle" /\ pc'[p] = "us_find") => StoreUnchanged
          /\ (req[p].op = "updateStatus" /\ Failed(p)) =>
                /\ pc[p] = "us_find"
                /\ orders' = orders
                /\ StoreUnchanged
                /\ IF req[p].orderId \in 1..Len(orders)
                   THEN /\ res'[p] = IllegalTransition(p)
                        /\ <<orders[req[p].orderId].status, req[p].newStatus>>
                               \notin TableEdges
                   ELSE res'[p] = Err(404, "Pedido nao encontrado", "", "")]_vars

\* updateStatus(1, ENTREGUE) was refused on the PENDENTE order, which is as it was
\* created: PENDENTE, no timestamp set, one history entry
C13_Witness ==
    /\ \E p \in Procs : res[p] = Err(400, "Nao e possivel mudar", PENDENTE, ENTREGUE)
    /\ orders[1] = NewOrder(1, "u1", 13, OrderItemsOf(OrderedCart))


Reverse(s) == [i \in 1..Len(s) |-> s[Len(s) + 1 - i]]
IsPrefix(s, t) == Len(s) <= Len(t) /\ \A i \in 1..Len(s) : t[i] = s[i]
Accepts(p) == pc[p] \in {"ca_write", "us_write"} /\ pc'[p] = "idle" /\ res'[p].kind = "ok"

\* C14 (writes): the step in which a cancel or an updateStatus is accepted appends
\* exactly one entry, carrying the new status, to the history of its order; every
\* other step leaves every history as it is, and no step changes or removes an entry.
C14_AppendOnly ==
    [][/\ \A i \in 1..Len(orders) : IsPrefix(orders[i].statusHistory, orders'[i].statusHistory)
       /\ \A p \in Procs :
             Accepts(p) =>
                LET id == req[p].orderId
                    h == orders'[id].statusHistory
                IN  /\ Len(h) = Len(orders[id].statusHistory) + 1
                    /\ h[Len(h)].status = orders'[id].status
                    /\ h[Len(h)].status =
                          (IF req[p].op = "cancel" THEN CANCELADO ELSE req[p].newStatus)
       /\ (\A p \in Procs : ~Accepts(p)) =>
             \A i \in 1..Len(orders) : orders'[i].statusHistory = orders[i].statusHistory]_vars

\* C14: the history is an append-only log in acceptance order (C14_AppendOnly), and a
\* getById that returns an order returns its history most recent first: the entries
\* in the reverse of the order in which they were accepted.
C14_HistoryLog ==
    /\ C14_AppendOnly
    /\ [][\A p \in Procs :
             (pc[p] = "gb_find" /\ pc'[p] = "idle" /\ res'[p].kind = "ok") =>
                 res'[p].statusHistory = Reverse(orders[res'[p].orderId].statusHistory)]_vars


NotFound == Err(404, "Pedido nao encontrado", "", "")
Visible(id, u) ==
    /\ id \in 1..Len(orders)
    /\ Role(u) = "ADMIN" \/ orders[id].userId = u

\* C15: a getById ends with the order (200) exactly when the order exists and the
\* requester is an admin or its owner; in every other case, an order of another
\* customer and an id that names no order alike, it ends with the same error: 404,
\* "Pedido nao encontrado", nothing else in the answer.  getById writes nothing.
C15_GetByIdOwnerOrAdmin ==
    [][\A p \in Procs :
          (pc[p] = "gb_find" /\ pc'[p] # "gb_find") =>
              /\ pc'[p] = "idle"
              /\ StoreUnchanged
              /\ IF Visible(req[p].orderId, req[p].user)
                 THEN /\ res'[p].kind = "ok"
                      /\ res'[p].statusCode = 200
                      /\ res'[p].orderId = req[p].orderId
                 ELSE res'[p] = NotFound]_vars

\* two requests were made and nothing was written: one getById returned order 1 with
\* its history, the other request was answered "not found"
C15_Witness ==
    /\ used.status = 2
    /\ \E p, q \in Procs :
          /\ res[p].kind = "ok" /\ res[p].orderId = 1 /\ Len(res[p].statusHistory) = 1
          /\ res[q] = NotFound
    /\ orders[1].status = PENDENTE


\* the slot whose request takes the step, and the customer of that request
Steps(p) == pc'[p] # pc[p]
Customer(p) == IF pc[p] = "idle" THEN req'[p].user ELSE req[p].user
OwnedBy(v) ==
    [cartExists |-> cartExists[v], cartItems |-> cartItems[v],
     orders |-> {<<i, orders[i]>> : i \in {k \in 1..Len(orders) : orders[k].userId = v}}]

StatusFields(order) ==
    [status |-> order.status, statusHistory |-> order.statusHistory,
     preparedAt |-> order.preparedAt, readyAt |-> order.readyAt,
     deliveredAt |-> order.deliveredAt, cancelledAt |-> order.cancelledAt]

\* C17: OrderService.updateStatus only ever runs for a user of role ADMIN; a request to
\* PATCH /admin/:id/status that is answered without a handler is answered 403 and
\* changes nothing; and a step that changes the status, a timestamp or the history of
\* an order is the write of an admin's updateStatus or of a cancel by the order's owner.
C17_AdminOnly ==
    /\ [](\A p \in Procs : req[p].op = "updateStatus" => Role(req[p].user) = "ADMIN")
    /\ [][/\ \A p \in Procs :
               (pc[p] = "idle" /\ pc'[p] = "idle" /\ res'[p] # res[p]) =>
                   (res'[p] = Forbidden /\ StoreUnchanged)
          /\ \A i \in 1..Len(orders) :
               StatusFields(orders'[i]) # StatusFields(orders[i]) =>
                   \E p \in Procs :
                       /\ Steps(p) /\ req[p].orderId = i
                       /\ \/ pc[p] = "us_write" /\ Role(req[p].user) = "ADMIN"
                          \/ /\ pc[p] = "ca_write" /\ req[p].user = orders[i].userId
                             /\ orders'[i].status = CANCELADO]_vars

\* a request to the status route was answered 403 and the order is as it was created,
\* while the admin's own request is on its way to its write
C17_Witness ==
    /\ \E p \in Procs : res[p] = Forbidden
    /\ \E p \in Procs : pc[p] = "us_write" /\ req[p].user \in Admins
    /\ orders[1] = NewOrder(1, "u1", 13, OrderItemsOf(OrderedCart))


\* C18: the order a createFromCart commits is stored with status PENDENTE, with exactly
\* one history entry (PENDENTE, no changedBy, notes 'Pedido criado') and with one order
\* item per item of the cart the request read, in the cart's order and never none.
C18_NewOrderShape ==
    [][\A p \in Procs :
          (pc[p] = "cf_tx_commit" /\ pc'[p] = "idle" /\ res'[p].kind = "ok") =>
              LET new == orders'[Len(orders')]
                  read == loc[p].cart.items
              IN  /\ Len(orders') = Len(orders) + 1
                  /\ new.status = PENDENTE
                  /\ Len(new.statusHistory) = 1
                  /\ new.statusHistory[1].status = PENDENTE
                  /\ new.statusHistory[1].changedBy = ""
                  /\ new.statusHistory[1].notes = "Pedido criado"
                  /\ Len(new.items) = Len(read)
                  /\ Len(new.items) >= 1
                  /\ \A k \in 1..Len(read) :
                         /\ new.items[k].productId = read[k].productId
                         /\ new.items[k].quantity = read[k].quantity]_vars

\* both customers have ordered, one a cart of one item and the other a cart of two, and
\* each order has its single history entry
C18_Witness ==
    /\ Len(orders) = 2
    /\ {Len(orders[i].items) : i \in 1..2} = {1, 2}
    /\ \A i \in 1..2 : orders[i].status = PENDENTE /\ Len(orders[i].statusHistory) = 1
    /\ \A u \in Users : cartItems[u] = <<>>


ItemsOfProduct(u, productId) ==
    {i \in 1..Len(cartItems[u]) : cartItems[u][i].productId = productId}

\* C19: no cart ever holds two items of one product; and an addItem that found the
\* product in the cart and succeeds adds no item: it sets the quantity of the item it
\* found to the quantity it read plus the quantity asked for.
C19_OneItemPerProduct ==
    /\ [](\A u \in Users, productId \in ProductIds :
              Cardinality(ItemsOfProduct(u, productId)) <= 1)
    /\ [][\A p \in Procs :
             (pc[p] = "ai_write" /\ loc[p].itemId # 0 /\ res'[p].kind = "ok") =>
                 LET u == req[p].user
                 IN  /\ Len(cartItems'[u]) = Len(cartItems[u])
                     /\ \A i \in 1..Len(cartItems[u]) :
                            /\ cartItems'[u][i].id = cartItems[u][i].id
                            /\ cartItems'[u][i].productId = cartItems[u][i].productId
                            /\ cartItems'[u][i].quantity =
                                   IF cartItems[u][i].id = loc[p].itemId
                                   THEN loc[p].itemQty + req[p].quantity
                                   ELSE cartItems[u][i].quantity]_vars

\* two addItem requests of one customer for a product that was not in the cart ran
\* together: one created the item, the other was answered 409, and the cart holds the
\* product once
C19_Witness ==
    /\ \E p, q \in Procs : res[p].kind = "ok" /\ res[q] = UniqueViolation
    /\ cartExists = [u \in Users |-> u = "u1"]
    /\ Len(cartItems["u1"]) = 2
    /\ Cardinality(ItemsOfProduct("u1", "pB")) = 1


\* C20: every stored cart item has a quantity of at least 1, whatever integer
\* quantities the cart routes were called with.
C20_PositiveQuantities ==
    \A u \in Users : \A i \in 1..Len(cartItems[u]) : cartItems[u][i].quantity >= 1

\* the part of C20 about updateItem: a successful updateItem with quantity <= 0 removes
\* the item, and with a larger quantity stores that quantity
C20_UpdateItemRemoves ==
    [][\A p \in Procs :
          (pc[p] = "ui_write" /\ res'[p].kind = "ok") =>
              LET u == req[p].user
                  hit == {i \in 1..Len(cartItems'[u]) :
                             cartItems'[u][i].id = req[p].itemId}
              IN  IF req[p].quantity <= 0
                  THEN hit = {} /\ Len(cartItems'[u]) = Len(cartItems[u]) - 1
                  ELSE \E i \in hit : cartItems'[u][i].quantity = req[p].quantity]_vars


Timestamps(order) ==
    [preparedAt |-> order.preparedAt, readyAt |-> order.readyAt,
     deliveredAt |-> order.deliveredAt, cancelledAt |-> order.cancelledAt]

TimestampOf == [s \in ORDER_STATUS \ {PENDENTE} |->
                   CASE s = EM_PREPARO -> "preparedAt"
                     [] s = PRONTO -> "readyAt"
                     [] s = ENTREGUE -> "deliveredAt"
                     [] s = CANCELADO -> "cancelledAt"]

HasEntry(order, s) ==
    \E k \in 1..Len(order.statusHistory) : order.statusHistory[k].status = s

\* C21: an accepted updateStatus to a status stamps the timestamp of that status and
\* leaves the other three as they were; an accepted cancel stamps cancelledAt and
\* leaves the other three; and in every state cancelledAt is set exactly if the history
\* has a CANCELADO entry, deliveredAt exactly if it has an ENTREGUE entry.
C21_TimestampsTrackTransitions ==
    /\ [](\A i \in 1..Len(orders) :
              /\ orders[i].cancelledAt <=> HasEntry(orders[i], CANCELADO)
              /\ orders[i].deliveredAt <=> HasEntry(orders[i], ENTREGUE))
    /\ [][\A p \in Procs :
             (Accepts(p)) =>
                 LET i == req[p].orderId
                     s == IF pc[p] = "ca_write" THEN CANCELADO ELSE req[p].newStatus
                 IN  Timestamps(orders'[i]) =
                         [Timestamps(orders[i]) EXCEPT ![TimestampOf[s]] = TRUE]]_vars

\* an order was taken through preparation and readiness to delivery: the three
\* timestamps of its way are set, cancelledAt is not
C21_Witness ==
    \E i \in 1..Len(orders) :
        /\ orders[i].status = ENTREGUE
        /\ Timestamps(orders[i]) = [preparedAt |-> TRUE, readyAt |-> TRUE,
                                    deliveredAt |-> TRUE, cancelledAt |-> FALSE]


InCreate(p) == pc[p] \in {"cf_read", "cf_tx_counter", "cf_tx_order", "cf_tx_purge",
                         "cf_tx_commit"}

\* C22: a createFromCart that commits while the order_counter row does not exist
\* creates the row with value 1 and stores its order with orderNumber 1; one that
\* commits afterwards takes the next value; no two orders carry orderNumber 1; and a
\* createFromCart that fails in or before its transaction leaves the counter, the
\* orders and the carts as they were.
C22_FirstUse ==
    /\ [](Cardinality({i \in 1..Len(orders) : orders[i].orderNumber = 1}) <= 1)
    /\ [][\A p \in Procs :
             /\ (pc[p] = "cf_tx_commit" /\ pc'[p] = "idle" /\ res'[p].kind = "ok") =>
                    /\ counter' = IF counter = NoRow THEN 1 ELSE counter + 1
                    /\ orders'[Len(orders')].orderNumber = counter'
             /\ (InCreate(p) /\ Failed(p)) =>
                    StoreUnchanged]_vars

\* two first-ever createFromCart calls overlap: the counter row does not exist, one
\* call has created it with value 1 inside its open transaction, the other is about
\* to start its own
C22_Witness ==
    \E p, q \in Procs :
        /\ counter = NoRow
        /\ pc[p] = "cf_tx_commit" /\ tx.owner = p /\ tx.counter = 1
        /\ loc[p].orderNumber = 1
        /\ pc[q] = "cf_tx_counter"

\* both of them committed: the orders are numbered 1 and 2
C22_BothCommitted ==
    /\ counter = 2
    /\ Len(orders) = 2
    /\ orders[1].orderNumber = 1 /\ orders[2].orderNumber = 2


\* the failures the services throw with a statusCode of their own
DomainFailure(r) ==
    /\ r.kind = "error"
    /\ r.message \in {"Carrinho vazio", "Produto nao esta mais disponivel",
                      "Nao e possivel mudar",
                      "Apenas pedidos pendentes podem ser cancelados",
                      "Pedido nao encontrado", "Carrinho nao encontrado",
                      "Item nao encontrado no carrinho", "Produto nao disponivel"}

\* C23: under every NODE_ENV the answer to a domain failure carries the failure's
\* statusCode and its message with the names the message cites (the unavailable
\* product, the current and the requested status); and under NODE_ENV = production no
\* answer carries a stack trace or the message of a storage error.
C23_DomainMessagesReachClient ==
    \A p \in Procs, nodeEnv \in NodeEnvs :
        /\ DomainFailure(res[p]) =>
               /\ ErrorMiddleware(res[p], nodeEnv).statusCode = res[p].statusCode
               /\ ErrorMiddleware(res[p], nodeEnv).message = res[p].message
               /\ ErrorMiddleware(res[p], nodeEnv).a = res[p].a
               /\ ErrorMiddleware(res[p], nodeEnv).b = res[p].b
        /\ (res[p].kind = "error" /\ res[p] # Forbidden /\ nodeEnv = "production") =>
               /\ ~ErrorMiddleware(res[p], nodeEnv).stack
               /\ ErrorMiddleware(res[p], nodeEnv).message \notin
                      {StorageError.message, RolledBack.message}

\* the parts of C23 that hold: outside production a domain failure is answered with
\* its statusCode and message; in production no answer carries a stack trace or the
\* message of a storage error, and a domain failure keeps its statusCode
C23_OutsideProduction ==
    \A p \in Procs, nodeEnv \in NodeEnvs :
        /\ (DomainFailure(res[p]) /\ nodeEnv # "production") =>
               /\ ErrorMiddleware(res[p], nodeEnv).statusCode = res[p].statusCode
               /\ ErrorMiddleware(res[p], nodeEnv).message = res[p].message
               /\ ErrorMiddleware(res[p], nodeEnv).a = res[p].a
               /\ ErrorMiddleware(res[p], nodeEnv).b = res[p].b
        /\ (res[p].kind = "error" /\ res[p] # Forbidden /\ nodeEnv = "production") =>
               /\ ~ErrorMiddleware(res[p], nodeEnv).stack
               /\ ErrorMiddleware(res[p], nodeEnv).message \notin
                      {StorageError.message, RolledBack.message}
               /\ ErrorMiddleware(res[p], nodeEnv).statusCode = res[p].statusCode

\* a transaction was rolled back and a cart was refused as empty: a storage error and
\* a domain failure both went through errorMiddleware
C23_BothKindsSeen ==
    \E p, q \in Procs : res[p] = RolledBack /\ res[q].message = "Carrinho vazio"


Commits(p) == pc[p] = "cf_tx_commit" /\ pc'[p] = "idle" /\ res'[p].kind = "ok"

Captured(item, order) ==
    \E j \in 1..Len(order.items) :
        /\ order.items[j].productId = item.productId
        /\ order.items[j].quantity = item.quantity

\* C24: every cart item that the commit of a createFromCart deletes is an item of the
\* order that the commit stores, with the same product and quantity.
C24_NoItemLost ==
    [][\A p \in Procs :
          Commits(p) =>
              \A k \in 1..Len(cartItems[req[p].user]) :
                  \/ \E j \in 1..Len(cartItems'[req[p].user]) :
                         cartItems'[req[p].user][j] = cartItems[req[p].user][k]
                  \/ Captured(cartItems[req[p].user][k], orders'[Len(orders')])]_vars


OrdersOf(u) == {i \in 1..Len(orders) : orders[i].userId = u}

\* C25: in runs where no item is ever added to a cart, no customer has two orders:
\* the content of a cart becomes an order at most once.
C25_CartOrderedOnce ==
    \A u \in Users : Cardinality(OrdersOf(u)) <= 1

\* the sequential part of C25: a createFromCart that starts after an order of its
\* customer was committed reads the purged cart and is refused with 'Carrinho vazio'
C25_SecondCallRefused ==
    [][\A p \in Procs :
          (pc[p] = "cf_read" /\ Steps(p) /\ OrdersOf(req[p].user) # {}) =>
              res'[p] = Err(400, "Carrinho vazio", "", "")]_vars


\* C26: at the commit of a createFromCart the product of every item of the order it
\* stores is marked available.
C26_AvailableAtCommit ==
    [][\A p \in Procs :
          Commits(p) =>
              LET new == orders'[Len(orders')]
              IN  \A k \in 1..Len(new.items) :
                      products'[new.items[k].productId].isAvailable]_vars


LastEntry(order) == order.statusHistory[Len(order.statusHistory)]

\* C27: the status of every order is the status of the history entry that was appended
\* to it last.
C27_StatusIsLastEntry ==
    \A i \in 1..Len(orders) :
        /\ Len(orders[i].statusHistory) >= 1
        /\ orders[i].status = LastEntry(orders[i]).status

\* a cancel and an updateStatus of one order overlapped and both were accepted: the
\* cancel wrote first, the update to EM_PREPARO after it
C27_Witness ==
    \E i \in 1..Len(orders) :
        /\ Len(orders[i].statusHistory) = 3
        /\ orders[i].statusHistory[2].status = CANCELADO
        /\ orders[i].statusHistory[2].notes = "Cancelado pelo cliente"
        /\ orders[i].statusHistory[3].status = EM_PREPARO
        /\ orders[i].status = EM_PREPARO


\* C28: the history of an order never holds a status twice, and never more than 4
\* entries.
C28_BoundedAcyclic ==
    \A i \in 1..Len(orders) :
        /\ \A j, k \in 1..Len(orders[i].statusHistory) :
               orders[i].statusHistory[j].status = orders[i].statusHistory[k].status
                   => j = k
        /\ Len(orders[i].statusHistory) <= 4

\* an order left EM_PREPARO for PRONTO and was put back to EM_PREPARO
C28_ReturnReached ==
    \E i \in 1..Len(orders) :
        /\ Len(orders[i].statusHistory) = 4
        /\ orders[i].statusHistory[2].status = EM_PREPARO
        /\ orders[i].statusHistory[3].status = PRONTO
        /\ orders[i].statusHistory[4].status = EM_PREPARO
        /\ orders[i].status = EM_PREPARO


\* the statuses s occur in the history h in this order, the last of them at position n
RECURSIVE InOrderUpTo(_, _, _)
InOrderUpTo(h, s, n) ==
    IF s = <<>> THEN TRUE
    ELSE /\ n >= 1
         /\ h[n].status = s[Len(s)]
         /\ \/ Len(s) = 1
            \/ \E m \in 1..(n - 1) : InOrderUpTo(h, SubSeq(s, 1, Len(s) - 1), m)

\* C29: every ENTREGUE entry of a history, and so the last entry of an order in
\* ENTREGUE, has before it a PENDENTE entry, then an EM_PREPARO entry, then a PRONTO
\* entry; every PRONTO entry has before it a PENDENTE entry, then an EM_PREPARO entry.
C29_StagesInOrder ==
    \A i \in 1..Len(orders) :
        LET h == orders[i].statusHistory
        IN  /\ \A n \in 1..Len(h) :
                   /\ h[n].status = ENTREGUE =>
                          InOrderUpTo(h, <<PENDENTE, EM_PREPARO, PRONTO, ENTREGUE>>, n)
                   /\ h[n].status = PRONTO =>
                          InOrderUpTo(h, <<PENDENTE, EM_PREPARO, PRONTO>>, n)
            /\ orders[i].status \in {ENTREGUE, PRONTO} =>
                   h[Len(h)].status = orders[i].status

\* an order was delivered: its history reads PENDENTE, EM_PREPARO, PRONTO, ENTREGUE,
\* the three transitions made by the admin
C29_Witness ==
    \E i \in 1..Len(orders) :
        /\ orders[i].status = ENTREGUE
        /\ [k \in 1..Len(orders[i].statusHistory) |-> orders[i].statusHistory[k].status]
               = <<PENDENTE, EM_PREPARO, PRONTO, ENTREGUE>>
        /\ \A k \in 2..4 : orders[i].statusHistory[k].changedBy \in Admins

\* an order is PRONTO although a stale updateStatus to EM_PREPARO was accepted twice
C29_WitnessAfterOverlap ==
    \E i \in 1..Len(orders) :
        /\ orders[i].status = PRONTO
        /\ [k \in 1..Len(orders[i].statusHistory) |-> orders[i].statusHistory[k].status]
               = <<PENDENTE, EM_PREPARO, EM_PREPARO, PRONTO>>


QuantityOf(items, productId) == FindCartItem(items, productId).quantity

\* C30: every successful addItem with a positive quantity raises the quantity that the
\* cart holds of its product by the quantity asked for (from 0 if the product was not
\* in the cart), so that the quantities of all successful calls add up.
C30_AddItemAccumulates ==
    [][\A p \in Procs :
          (pc[p] = "ai_write" /\ Steps(p) /\ res'[p].kind = "ok"
             /\ req[p].quantity > 0) =>
              QuantityOf(cartItems'[req[p].user], req[p].productId) =
                  QuantityOf(cartItems[req[p].user], req[p].productId)
                      + req[p].quantity]_vars

\* the part of C30 without overlap: an addItem whose write finds the quantity it read
\* raises it by the quantity asked for
C30_AccumulatesWithoutOverlap ==
    [][\A p \in Procs :
          (pc[p] = "ai_write" /\ Steps(p) /\ res'[p].kind = "ok"
             /\ QuantityOf(cartItems[req[p].user], req[p].productId) = loc[p].itemQty) =>
              QuantityOf(cartItems'[req[p].user], req[p].productId) =
                  loc[p].itemQty + req[p].quantity]_vars

====
